---- MODULE Spec2Model ----
(***************************************************************************)
(* A model of src/redis_request.cc: the resumable RESP decoder             *)
(* (Request::Tokenize), the per-batch dispatcher                           *)
(* (Request::ExecuteCommands) and the read callback that runs one after    *)
(* the other (Connection::OnRead).                                         *)
(*                                                                         *)
(* Bytes are one-character strings, a buffer is a sequence of bytes, a     *)
(* token is a sequence of bytes and a command is a sequence of tokens.     *)
(***************************************************************************)
EXTENDS Integers, Sequences, FiniteSets, TLC

VARIABLES
    frames,     \* the token lists of the frames the peer writes, in order
    stream,     \* the bytes of those frames, as the peer writes them
    cuts,       \* the stream offsets at which the transport may end a delivery
    pos,        \* number of bytes of the stream that have reached the buffer
    input,      \* the connection's inbound evbuffer (conn->Input())
    req,        \* the Request: state_, multi_bulk_len_, bulk_len_, tokens_, commands_
    inbound,    \* svr_->stats_ inbound byte counter
    conn,       \* the Connection: ns_, flags_, last_cmd_, current_cmd_, is_repl_
    resumed,    \* whether a Tokenize call has taken up a frame an earlier call left unfinished
    emitted,    \* every command Tokenize has pushed to commands_, in order
    executed,   \* number of Execute calls so far
    last,       \* what the last ExecuteCommands call saw and did
    call,       \* the last subscription call on the connection and what it did
    owner,      \* the descriptors of the connections the Worker holds
    bev,        \* the bufferevent: the events enabled on it
    event       \* the last callback the transport delivered and what it did

vars == <<frames, stream, cuts, pos, input, req, inbound, conn, resumed, emitted,
          executed, last, call, owner, bev, event>>

----------------------------------------------------------------------------
(* Bounds of the model.                                                    *)

\* Most frames in one byte stream of the decoder specification.
MaxFrames == 2

\* Most commands in one byte stream of the connection specification.
MaxCmds == 2

\* Most lines in one byte stream of the raw decoder specification.
MaxPieces == 3

\* Number of channel names of the subscription specifications.
MaxChannels == 4

----------------------------------------------------------------------------
(* Bytes and the wire format.                                              *)

CR == "\r"
LF == "\n"
CRLF == <<CR, LF>>

DigitChars == <<"0", "1", "2", "3", "4", "5", "6", "7", "8", "9">>

IsDigit(c) == \E i \in 1..10 : DigitChars[i] = c

DigitVal(c) == (CHOOSE i \in 1..10 : DigitChars[i] = c) - 1

\* isspace() of the C locale, over the bytes the model uses.
IsSpace(c) == c \in {" ", "\t", LF, CR}

RECURSIVE Dec(_)
\* The base-10 text of a natural number.
Dec(n) == IF n < 10 THEN <<DigitChars[n + 1]>>
          ELSE Dec(n \div 10) \o <<DigitChars[(n % 10) + 1]>>

\* One bulk element: "$<length>\r\n<payload>\r\n".
EncodeBulk(tok) == <<"$">> \o Dec(Len(tok)) \o CRLF \o tok \o CRLF

RECURSIVE EncodeBulks(_)
EncodeBulks(toks) == IF toks = <<>> THEN <<>>
                     ELSE EncodeBulk(Head(toks)) \o EncodeBulks(Tail(toks))

\* One well-formed command frame: "*<count>\r\n" and its bulks.
EncodeCommand(toks) == <<"*">> \o Dec(Len(toks)) \o CRLF \o EncodeBulks(toks)

RECURSIVE Concat(_)
Concat(ss) == IF ss = <<>> THEN <<>> ELSE Head(ss) \o Concat(Tail(ss))

----------------------------------------------------------------------------
(* libevent and libc calls used by the decoder.                            *)

RECURSIVE CRLFFrom(_, _)
\* Index of the first "\r\n" in buf at or after i, 0 when there is none.
CRLFFrom(buf, i) ==
    IF i >= Len(buf) THEN 0
    ELSE IF buf[i] = CR /\ buf[i + 1] = LF THEN i
    ELSE CRLFFrom(buf, i + 1)

CRLFIndex(buf) == CRLFFrom(buf, 1)

\* A read that drops what is buffered when no complete line is there.
evbuffer_readln_Lossy(buf) ==
    LET i == CRLFIndex(buf)
    IN IF i = 0
       THEN [ok |-> FALSE, line |-> <<>>, len |-> 0, rest |-> <<>>]
       ELSE [ok |-> TRUE, line |-> SubSeq(buf, 1, i - 1), len |-> i - 1,
             rest |-> SubSeq(buf, i + 2, Len(buf))]

\* evbuffer_readln(input, &len, EVBUFFER_EOL_CRLF_STRICT): without a complete
\* line nothing is consumed; otherwise the line is returned without its
\* terminator and the line and the terminator are drained.
evbuffer_readln(buf) ==
    LET i == CRLFIndex(buf)
    IN IF i = 0
       THEN [ok |-> FALSE, line |-> <<>>, len |-> 0, rest |-> buf]
       ELSE [ok |-> TRUE, line |-> SubSeq(buf, 1, i - 1), len |-> i - 1,
             rest |-> SubSeq(buf, i + 2, Len(buf))]

RECURSIVE SkipSpace(_)
SkipSpace(s) == IF s # <<>> /\ IsSpace(Head(s)) THEN SkipSpace(Tail(s)) ELSE s

RECURSIVE DigitsValue(_, _)
\* The value of the longest prefix of digits of s, after acc.
DigitsValue(s, acc) ==
    IF s # <<>> /\ IsDigit(Head(s))
    THEN DigitsValue(Tail(s), acc * 10 + DigitVal(Head(s)))
    ELSE acc

\* std::strtoull(s, nullptr, 10): leading white space, an optional sign, then
\* digits up to the first byte that is none; no digits give 0. A minus sign
\* negates the value (modulo 2^64, which stored in a signed 64-bit field is
\* the negative number itself).
strtoull(s) ==
    LET t == SkipSpace(s)
    IN IF t # <<>> /\ Head(t) = "-" THEN 0 - DigitsValue(Tail(t), 0)
       ELSE IF t # <<>> /\ Head(t) = "+" THEN DigitsValue(Tail(t), 0)
       ELSE DigitsValue(t, 0)

\* A count parsed from the first byte of the line on.
AfterFirst_Whole(line) == line

\* line + 1: the text after the first byte of a line of at least one byte.
AfterFirst(line) == SubSeq(line, 2, Len(line))

----------------------------------------------------------------------------
(* Request::Tokenize.                                                      *)

\* A decoder run: the Request, the buffer, the inbound byte counter, and the
\* commands pushed so far.
ReqInit == [state_ |-> "ArrayLen", multi_bulk_len_ |-> 0, bulk_len_ |-> 0,
            tokens_ |-> <<>>, commands_ |-> <<>>]

\* The test written as (multi_bulk_len_ < 0).
CommandComplete_Strict(left) == left < 0

\* if (multi_bulk_len_ <= 0), after the decrement.
CommandComplete(left) == left <= 0

\* The ArrayLen case with a count of zero or less completing a command of
\* no tokens at once.
ArrayLenStep_EmptyCommand(run, ln) ==
    LET n == IF ln.len > 0 THEN strtoull(AfterFirst(ln.line)) ELSE 0
    IN IF n <= 0
       THEN [run EXCEPT
               !.input = ln.rest,
               !.inbound = @ + ln.len,
               !.req.multi_bulk_len_ = n,
               !.req.commands_ = Append(@, <<>>),
               !.emitted = Append(@, <<>>)]
       ELSE [run EXCEPT
               !.input = ln.rest,
               !.inbound = @ + ln.len,
               !.req.multi_bulk_len_ = n,
               !.req.state_ = "BulkLen"]

\* case ArrayLen, the line ln read: the count is stored and the next state
\* is BulkLen whatever the count.
ArrayLenStep(run, ln) ==
    [run EXCEPT
       !.input = ln.rest,
       !.inbound = @ + ln.len,
       !.req.multi_bulk_len_ =
           IF ln.len > 0 THEN strtoull(AfterFirst(ln.line)) ELSE 0,
       !.req.state_ = "BulkLen"]

\* evbuffer_get_length(input) < bulk_len_ + 2, in size_t: for a bulk_len_
\* that a minus sign made 2^64 - n, bulk_len_ + 2 is 2 - n when n is 1 or 2
\* and beyond any buffer otherwise.
TooShort(buf, bulk_len) ==
    IF bulk_len + 2 < 0 THEN TRUE ELSE Len(buf) < bulk_len + 2

\* One pass of the switch in the loop. junk is what the read of line + 1 of
\* an empty bulk header line yields (it is past the line's terminating NUL).
\* run is [req, input, inbound, emitted, oob, fault, more]; more = FALSE is
\* the return, oob records that the out-of-bounds read happened, fault that
\* tokens_.emplace_back(data, bulk_len_) threw for a length beyond
\* max_size(), which nothing catches.
TokenizeStep(run, junk) ==
    LET r == run.req
        ln == evbuffer_readln(run.input)
    IN CASE r.state_ = "ArrayLen" ->
              IF ~ln.ok THEN [run EXCEPT !.input = ln.rest, !.more = FALSE]
              ELSE ArrayLenStep(run, ln)
         [] r.state_ = "BulkLen" ->
              IF ~ln.ok THEN [run EXCEPT !.input = ln.rest, !.more = FALSE]
              ELSE [run EXCEPT
                      !.input = ln.rest,
                      !.inbound = @ + ln.len,
                      !.req.bulk_len_ =
                          IF ln.len > 0 THEN strtoull(AfterFirst(ln.line)) ELSE junk,
                      !.oob = @ \/ ln.len = 0,
                      !.req.state_ = "BulkData"]
         [] r.state_ = "BulkData" ->
              IF TooShort(run.input, r.bulk_len_) THEN [run EXCEPT !.more = FALSE]
              ELSE IF r.bulk_len_ < 0
              THEN [run EXCEPT !.fault = TRUE, !.more = FALSE]
              ELSE LET tok == SubSeq(run.input, 1, r.bulk_len_)
                       toks == Append(r.tokens_, tok)
                       left == r.multi_bulk_len_ - 1
                       rest == SubSeq(run.input, r.bulk_len_ + 3, Len(run.input))
                   IN IF CommandComplete(left)
                      THEN [run EXCEPT
                              !.input = rest,
                              !.inbound = @ + r.bulk_len_ + 2,
                              !.req.multi_bulk_len_ = left,
                              !.req.state_ = "ArrayLen",
                              !.req.commands_ = Append(@, toks),
                              !.req.tokens_ = <<>>,
                              !.emitted = Append(@, toks)]
                      ELSE [run EXCEPT
                              !.input = rest,
                              !.inbound = @ + r.bulk_len_ + 2,
                              !.req.multi_bulk_len_ = left,
                              !.req.tokens_ = toks,
                              !.req.state_ = "BulkLen"]

RECURSIVE TokenizeLoop(_, _)
\* while (true) { switch (state_) ... }: passes until one returns.
TokenizeLoop(run, junk) ==
    LET nxt == TokenizeStep(run, junk)
    IN IF nxt.more THEN TokenizeLoop(nxt, junk) ELSE nxt

\* Request::Tokenize(input) on a Request r with buffer buf.
Tokenize(r, buf, inb, em, junk) ==
    TokenizeLoop([req |-> r, input |-> buf, inbound |-> inb, emitted |-> em,
                  oob |-> FALSE, fault |-> FALSE, more |-> TRUE], junk)

\* What bulk_len_ may be after the out-of-bounds read of an empty bulk header.
JunkValues == {0, 1}

\* The values that read can yield in a call that ran as run0 with 0 for it:
\* one when the call never makes it.
JunkFor(run0) == IF run0.oob THEN JunkValues ELSE {0}

----------------------------------------------------------------------------
(* Replies, the command registry and the server's answers.                 *)

\* Redis::Error(msg): an error reply carrying msg.
Error(msg) == [kind |-> "error", msg |-> msg]

\* The reply payload the i-th command of a batch writes to *output.
Payload(i) == [kind |-> "payload", of |-> i]

\* std::string reply; (empty)
EmptyReply == [kind |-> "empty"]

UpperChars == <<"A", "D", "E", "G", "H", "L", "S", "T", "U", "X">>
LowerChars == <<"a", "d", "e", "g", "h", "l", "s", "t", "u", "x">>

\* tolower() of one byte.
LowerChar(c) ==
    IF \E i \in 1..Len(UpperChars) : UpperChars[i] = c
    THEN LowerChars[CHOOSE i \in 1..Len(UpperChars) : UpperChars[i] = c]
    ELSE c

\* Util::ToLower(s)
ToLower(s) == [i \in 1..Len(s) |-> LowerChar(s[i])]

AuthName == <<"a", "u", "t", "h">>
GetName == <<"g", "e", "t">>
SetName == <<"s", "e", "t">>
DelName == <<"d", "e", "l">>

\* The command table: name, declared arity, write classification.
CommandTable == {
    [name |-> AuthName, arity |-> 2, is_write |-> FALSE],
    [name |-> GetName, arity |-> 2, is_write |-> FALSE],
    [name |-> SetName, arity |-> 3, is_write |-> TRUE],
    [name |-> DelName, arity |-> 0 - 2, is_write |-> TRUE] }

\* LookupCommand(name, &cmd, is_repl): the entry of the lower-cased name in
\* the table of the session's kind, or a failure.
LookupCommand(name, is_repl) ==
    LET hits == {c \in CommandTable : c.name = ToLower(name)}
    IN IF hits = {} THEN [ok |-> FALSE]
       ELSE [ok |-> TRUE, cmd |-> CHOOSE c \in hits : TRUE]

\* What Execute of one command does, which is the command's own business:
\* it succeeds or not, writes *output or leaves it alone, and sets
\* kCloseAfterReply on the connection or not.
ExecOutcomes == [ok : BOOLEAN, writes : BOOLEAN, close : BOOLEAN]

\* config->slave_readonly and svr_->IsSlave() during one ExecuteCommands call.
Gates == [slave : BOOLEAN, slave_readonly : BOOLEAN]

NoGate == [slave |-> FALSE, slave_readonly |-> FALSE]

ParseMsg == "ERR syntax error"
ExecMsg == "storage failure"

----------------------------------------------------------------------------
(* Connection.                                                             *)

kCloseAfterReply == "kCloseAfterReply"

\* Connection::SetFlag
SetFlag(c, flag) == [c EXCEPT !.flags_ = @ \cup {flag}]

\* Connection::IsFlagEnabled
IsFlagEnabled(c, flag) == flag \in c.flags_

ConnInit(ns, is_repl) ==
    [ns_ |-> ns, flags_ |-> {}, last_cmd_ |-> <<>>, current_cmd_ |-> <<>>,
     is_repl_ |-> is_repl, subscribe_channels_ |-> <<>>]

----------------------------------------------------------------------------
(* Channel subscriptions of a Connection.                                  *)

\* The channel names, each identified by a number.
Channels == 1..MaxChannels

\* owner_->svr_->SubscribeChannel(channel, this) and
\* owner_->svr_->UnSubscribeChannel(channel, this), as the registry sees them.
SvrSubscribe(channel) == [op |-> "SubscribeChannel", channel |-> channel]
SvrUnSubscribe(channel) == [op |-> "UnSubscribeChannel", channel |-> channel]

\* A membership scan that looks at the first entry only.
AlreadySubscribed_FirstOnly(chans, channel) ==
    chans # <<>> /\ chans[1] = channel

\* for (const auto &chan : subscribe_channels_) if (channel == chan) return;
AlreadySubscribed(chans, channel) ==
    \E i \in 1..Len(chans) : chans[i] = channel

\* Connection::SubscribeChannel: the connection afterwards and the registry
\* calls made.
SubscribeChannel(c, channel) ==
    IF AlreadySubscribed(c.subscribe_channels_, channel)
    THEN [conn |-> c, notes |-> <<>>, outcome |-> "returned"]
    ELSE [conn |-> [c EXCEPT !.subscribe_channels_ = Append(@, channel)],
          notes |-> <<SvrSubscribe(channel)>>, outcome |-> "returned"]

\* subscribe_channels_.erase(iter)
Erase(chans, i) == SubSeq(chans, 1, i - 1) \o SubSeq(chans, i + 1, Len(chans))

\* Where iter++ can leave the scan after erase(iter) invalidated iter at
\* position i, chans being the sequence after the erase (its type is not in
\* this file): it goes on from a position, or the process is killed
\* ("fault"), or the scan runs on outside the sequence ("no return"). In contiguous
\* storage iter is at the element that followed and ++ skips it; when the
\* erased element was the last, iter is end() and ++ moves it past end(),
\* which iter != end() never catches. In linked storage iter is a freed
\* node, whose link, if still readable, leads to the element that followed.
AfterErase(chans, i) ==
    (IF i <= Len(chans)
     THEN {[outcome |-> "goes on", at |-> i + 1]}
     ELSE {[outcome |-> "no return", at |-> i + 1]})
    \cup {[outcome |-> "goes on", at |-> i], [outcome |-> "fault", at |-> i]}

RECURSIVE UnSubscribeScan(_, _, _, _)
\* The loop of UnSubscribeChannel with iter at position i: every result
\* [chans, notes, outcome] it can end with.
UnSubscribeScan(chans, channel, i, notes) ==
    IF i > Len(chans)
    THEN {[chans |-> chans, notes |-> notes, outcome |-> "returned"]}
    ELSE IF chans[i] = channel
    THEN LET erased == Erase(chans, i)
             told == Append(notes, SvrUnSubscribe(channel))
         IN UNION {IF nxt.outcome # "goes on"
                   THEN {[chans |-> erased, notes |-> told,
                          outcome |-> nxt.outcome]}
                   ELSE UnSubscribeScan(erased, channel, nxt.at, told)
                   : nxt \in AfterErase(erased, i)}
    ELSE UnSubscribeScan(chans, channel, i + 1, notes)

\* Connection::UnSubscribeChannel: every way the call can go.
UnSubscribeChannel(c, channel) ==
    {[conn |-> [c EXCEPT !.subscribe_channels_ = res.chans],
      notes |-> res.notes, outcome |-> res.outcome]
     : res \in UnSubscribeScan(c.subscribe_channels_, channel, 1, <<>>)}

\* Connection::UnSubscribeAll
UnSubscribeAll(c) ==
    IF c.subscribe_channels_ = <<>>
    THEN [conn |-> c, notes |-> <<>>, outcome |-> "returned"]
    ELSE [conn |-> [c EXCEPT !.subscribe_channels_ = <<>>],
          notes |-> [i \in 1..Len(c.subscribe_channels_) |->
                        SvrUnSubscribe(c.subscribe_channels_[i])],
          outcome |-> "returned"]

CallInit == [op |-> "none", channel |-> 0, before |-> <<>>, notes |-> <<>>,
             outcome |-> "returned"]

----------------------------------------------------------------------------
(* The Worker's connections and the transport callbacks.                   *)

\* conn->GetFD()
FD == "fd"

EV_READ == "EV_READ"
EV_WRITE == "EV_WRITE"

BEV_EVENT_READING == "BEV_EVENT_READING"
BEV_EVENT_EOF == "BEV_EVENT_EOF"
BEV_EVENT_ERROR == "BEV_EVENT_ERROR"
BEV_EVENT_TIMEOUT == "BEV_EVENT_TIMEOUT"

\* The bits an event callback may carry.
BevEvents == {BEV_EVENT_READING, BEV_EVENT_EOF, BEV_EVENT_ERROR,
              BEV_EVENT_TIMEOUT}

\* owner_->RemoveConnection(fd)
RemoveConnection(conns, fd) == conns \ {fd}

\* bufferevent_enable(bev, what)
bufferevent_enable(b, what) == [b EXCEPT !.enabled = @ \cup what]

\* What the transport does to the bufferevent before it reports a timeout:
\* reading is switched off when the read side timed out.
TimedOut(b, events) ==
    IF {BEV_EVENT_TIMEOUT, BEV_EVENT_READING} \subseteq events
    THEN [b EXCEPT !.enabled = @ \ {EV_READ}]
    ELSE b

\* A teardown test that any event bit satisfies.
TearsDown_AnyEvent(events) == events # {}

\* events & (BEV_EVENT_EOF | BEV_EVENT_ERROR)
TearsDown(events) == events \cap {BEV_EVENT_EOF, BEV_EVENT_ERROR} # {}

\* Connection::OnWrite on connection c: the Worker's connections afterwards.
OnWriteCallback(c, conns) ==
    IF IsFlagEnabled(c, kCloseAfterReply)
    THEN RemoveConnection(conns, FD) ELSE conns

\* Connection::OnEvent: the Worker's connections and the bufferevent
\* afterwards.
OnEventCallback(conns, b, events) ==
    IF TearsDown(events)
    THEN [conns |-> RemoveConnection(conns, FD), bev |-> b]
    ELSE IF BEV_EVENT_TIMEOUT \in events
    THEN [conns |-> conns, bev |-> bufferevent_enable(b, {EV_READ, EV_WRITE})]
    ELSE [conns |-> conns, bev |-> b]

BevInit == [enabled |-> {EV_READ, EV_WRITE}]

EventInit == [cb |-> "none", events |-> {}]

\* A connection as the Worker holds it after accepting it, no callback run.
Accepted ==
    /\ call = CallInit
    /\ owner = {FD}
    /\ bev = BevInit
    /\ event = EventInit

----------------------------------------------------------------------------
(* Request::ExecuteCommands.                                               *)

\* An arity test that lets extra tokens through for a positive arity.
ArityMismatch_AtLeast(arity, tokens) ==
    \/ (arity > 0 /\ tokens < arity)
    \/ (arity < 0 /\ tokens < 0 - arity)

\* The arity test: TRUE when the command is to be rejected.
ArityMismatch(arity, tokens) ==
    \/ (arity > 0 /\ tokens # arity)
    \/ (arity < 0 /\ tokens < 0 - arity)

\* An unauthenticated test that compares the name as it was sent.
AuthRequired_CaseSensitive(c, cmd_tokens) ==
    c.ns_ = "" /\ Head(cmd_tokens) # AuthName

\* The unauthenticated test: TRUE when the command is to be rejected.
AuthRequired(c, cmd_tokens) ==
    c.ns_ = "" /\ ToLower(Head(cmd_tokens)) # AuthName

\* A read-only test with the write classification negated.
ReadOnlyViolation_Negated(gate, cmd) ==
    gate.slave_readonly /\ gate.slave /\ ~cmd.is_write

\* The read-only test: TRUE when the command is to be rejected.
ReadOnlyViolation(gate, cmd) ==
    gate.slave_readonly /\ gate.slave /\ cmd.is_write

\* A loop without the exit test.
LoopBreaks_Never(c) == FALSE

\* The loop's exit test at the top of each iteration.
LoopBreaks(c) == IsFlagEnabled(c, kCloseAfterReply)

\* How far an iteration got, by the check that ended it ("run": none did),
\* and the steps of lines 176-211 an iteration that got so far performed.
Verdicts == <<"noauth", "unknown", "arity", "parse", "readonly", "run">>

StepsOf(verdict) ==
    CASE verdict = "noauth" -> {"auth"}
      [] verdict = "unknown" -> {"auth", "LookupCommand"}
      [] verdict = "arity" -> {"auth", "LookupCommand", "arity"}
      [] verdict = "parse" -> {"auth", "LookupCommand", "arity", "Parse"}
      [] verdict = "readonly" ->
             {"auth", "LookupCommand", "arity", "Parse", "readonly"}
      [] verdict = "run" ->
             {"auth", "LookupCommand", "arity", "Parse", "readonly",
              "SetLastCmd", "IncrCalls", "Execute", "SlowlogPushEntryIfNeeded",
              "IncrLatency"}

\* svr_->stats_ and the slow log as this file feeds them: the names passed
\* to IncrCalls and to IncrLatency and the commands, by their place in the
\* batch, whose Args() were passed to SlowlogPushEntryIfNeeded.
StatsInit == [calls |-> <<>>, slowlog |-> <<>>, latency |-> <<>>]

\* svr_->stats_.IncrCalls(name)
IncrCalls(st, name) == [st EXCEPT !.calls = Append(@, name)]

\* svr_->SlowlogPushEntryIfNeeded(conn->current_cmd_->Args(), duration)
SlowlogPushEntryIfNeeded(st, i) == [st EXCEPT !.slowlog = Append(@, i)]

\* svr_->stats_.IncrLatency(duration, name)
IncrLatency(st, name) == [st EXCEPT !.latency = Append(@, name)]

\* A rejection that counts a call of the command bound to the connection.
Rejected_Counted(acc, ev, verdict, err) ==
    [acc EXCEPT
       !.stats = IncrCalls(@, acc.conn.current_cmd_),
       !.replies = Append(@, err),
       !.trace = Append(@, [ev EXCEPT !.verdict = verdict, !.replies = <<err>>])]

\* An iteration that ends in conn->Reply(err); continue;
Rejected(acc, ev, verdict, err) ==
    [acc EXCEPT
       !.replies = Append(@, err),
       !.trace = Append(@, [ev EXCEPT !.verdict = verdict, !.replies = <<err>>])]

\* The failure branch without its continue: the reply string follows the error.
ReplyAfterExecute_NoContinue(ok, reply) ==
    (IF ~ok THEN <<Error("ERR " \o ExecMsg)>> ELSE <<>>)
    \o (IF reply # EmptyReply THEN <<reply>> ELSE <<>>)

\* What the iteration emits after Execute returned: the error of a failed
\* command, else the reply string when it is not empty.
ReplyAfterExecute(ok, reply) ==
    IF ~ok THEN <<Error("ERR " \o ExecMsg)>>
    ELSE IF reply # EmptyReply THEN <<reply>>
    ELSE <<>>

\* Lines 203-218: the command runs, with Execute behaving as o.
RunCommand(acc, ev, cmd, i, o) ==
    LET named == [acc.conn EXCEPT !.last_cmd_ = cmd.name]
        \* Execute: the auth command binds the namespace, any command may
        \* ask for the connection to be closed after the reply.
        authed == IF o.ok /\ cmd.name = AuthName
                  THEN [named EXCEPT !.ns_ = "ns"] ELSE named
        after == IF o.close THEN SetFlag(authed, kCloseAfterReply) ELSE authed
        reply == IF o.writes THEN Payload(i) ELSE acc.reply
        out == ReplyAfterExecute(o.ok, reply)
    IN [acc EXCEPT
          !.conn = after,
          !.reply = reply,
          !.executed = @ + 1,
          !.stats = IncrLatency(
                      SlowlogPushEntryIfNeeded(IncrCalls(@, cmd.name), i),
                      cmd.name),
          !.replies = @ \o out,
          !.trace = Append(@, [ev EXCEPT !.verdict = "run", !.replies = out,
                                         !.ok = o.ok, !.writes = o.writes,
                                         !.closed = LoopBreaks(after)])]

\* An iteration that looks the command up before it asks for authentication.
ProcessCommand_LookupFirst(acc, i, cmd_tokens, gate) ==
    LET c == acc.conn
        ev == [idx |-> i, ns |-> c.ns_, verdict |-> "", replies |-> <<>>,
               ok |-> FALSE, writes |-> FALSE, closed |-> FALSE]
        found == LookupCommand(Head(cmd_tokens), c.is_repl_)
    IN IF ~found.ok
       THEN {Rejected(acc, ev, "unknown", Error("ERR unknown command"))}
       ELSE IF AuthRequired(c, cmd_tokens)
       THEN {Rejected(acc, ev, "noauth",
                      Error("NOAUTH Authentication required."))}
       ELSE LET bound == [acc EXCEPT !.conn.current_cmd_ = found.cmd.name]
            IN IF ArityMismatch(found.cmd.arity, Len(cmd_tokens))
               THEN {Rejected(bound, ev, "arity",
                              Error("ERR wrong number of arguments"))}
               ELSE {Rejected(bound, ev, "parse", Error(ParseMsg))}
                    \cup
                    IF ReadOnlyViolation(gate, found.cmd)
                    THEN {Rejected(bound, ev, "readonly",
                             Error("READONLY You can't write against a read only slave."))}
                    ELSE {RunCommand(bound, ev, found.cmd, i, o)
                          : o \in ExecOutcomes}

\* One iteration of the loop over commands_, past the exit test: every way
\* it can go, Parse failing or not and Execute behaving as any outcome.
ProcessCommand(acc, i, cmd_tokens, gate) ==
    LET c == acc.conn
        ev == [idx |-> i, ns |-> c.ns_, verdict |-> "", replies |-> <<>>,
               ok |-> FALSE, writes |-> FALSE, closed |-> FALSE]
        found == LookupCommand(Head(cmd_tokens), c.is_repl_)
    IN IF AuthRequired(c, cmd_tokens)
       THEN {Rejected(acc, ev, "noauth",
                      Error("NOAUTH Authentication required."))}
       ELSE IF ~found.ok
       THEN {Rejected(acc, ev, "unknown", Error("ERR unknown command"))}
       ELSE LET bound == [acc EXCEPT !.conn.current_cmd_ = found.cmd.name]
            IN IF ArityMismatch(found.cmd.arity, Len(cmd_tokens))
               THEN {Rejected(bound, ev, "arity",
                              Error("ERR wrong number of arguments"))}
               ELSE {Rejected(bound, ev, "parse", Error(ParseMsg))}
                    \cup
                    IF ReadOnlyViolation(gate, found.cmd)
                    THEN {Rejected(bound, ev, "readonly",
                             Error("READONLY You can't write against a read only slave."))}
                    ELSE {RunCommand(bound, ev, found.cmd, i, o)
                          : o \in ExecOutcomes}

RECURSIVE CommandLoop_Reversed(_, _, _, _)
\* The loop walking commands_ from its end.
CommandLoop_Reversed(accs, cmds, i, gate) ==
    IF i > Len(cmds) THEN accs
    ELSE CommandLoop_Reversed(
           UNION {IF LoopBreaks(a.conn) THEN {a}
                  ELSE ProcessCommand(a, Len(cmds) + 1 - i,
                                      cmds[Len(cmds) + 1 - i], gate) : a \in accs},
           cmds, i + 1, gate)

RECURSIVE CommandLoop(_, _, _, _)
\* for (auto &cmd_tokens : commands_) { ... }: from the runs accs that have
\* reached command i, the runs at the end of the loop.
CommandLoop(accs, cmds, i, gate) ==
    IF i > Len(cmds) THEN accs
    ELSE CommandLoop(
           UNION {IF LoopBreaks(a.conn) THEN {a}
                  ELSE ProcessCommand(a, i, cmds[i], gate) : a \in accs},
           cmds, i + 1, gate)

\* What is left in commands_ when ExecuteCommands returns from the loading
\* branch (return;) and when it returns from the end (commands_.clear()).
AfterLoadingReturn(cmds) == cmds
AfterLoop(cmds) == <<>>

\* A loading branch that answers every queued command.
LoadingReplies_PerCommand(cmds) ==
    [j \in 1..Len(cmds) |-> Error("replication in progress")]

\* The replies of the loading branch.
LoadingReplies(cmds) == <<Error("replication in progress")>>

\* The gate as far as the call consulted it: line 199 is reached only by a
\* command that passed Parse, and svr_->IsSlave() is asked only when
\* config->slave_readonly is set.
GateSeen(gate, trace) ==
    IF \E j \in 1..Len(trace) : "readonly" \in StepsOf(trace[j].verdict)
    THEN (IF gate.slave_readonly THEN gate ELSE NoGate)
    ELSE NoGate

LastInit == [ran |-> FALSE, loading |-> FALSE, gate |-> NoGate,
             batch |-> <<>>, flags |-> {}, replies |-> <<>>, trace |-> <<>>,
             stats |-> StatsInit]

\* Request::ExecuteCommands(conn): every way the call can go, the server
\* loading or not and answering any gate. A result is
\* [req, conn, executed, last].
ExecuteCommands(r, c, n) ==
    LET cmds == r.commands_
        seen == [LastInit EXCEPT !.ran = TRUE, !.batch = cmds,
                                 !.flags = c.flags_]
    IN IF cmds = <<>>
       THEN {[req |-> r, conn |-> c, executed |-> n, last |-> LastInit]}
       ELSE {[req |-> [r EXCEPT !.commands_ = AfterLoadingReturn(cmds)],
              conn |-> c, executed |-> n,
              last |-> [seen EXCEPT !.loading = TRUE,
                                    !.replies = LoadingReplies(cmds)]]}
            \cup
            UNION {
              {[req |-> [r EXCEPT !.commands_ = AfterLoop(cmds)],
                conn |-> acc.conn, executed |-> acc.executed,
                last |-> [seen EXCEPT !.gate = GateSeen(gate, acc.trace),
                                      !.replies = acc.replies,
                                      !.trace = acc.trace,
                                      !.stats = acc.stats]]
               : acc \in CommandLoop({[conn |-> c, reply |-> EmptyReply,
                                       executed |-> n, replies |-> <<>>,
                                       trace |-> <<>>, stats |-> StatsInit]},
                                     cmds, 1, gate)}
              : gate \in Gates}

----------------------------------------------------------------------------
(* Byte streams.                                                           *)

\* All sequences of at most n elements of S.
SeqsUpTo(S, n) == UNION {[1..k -> S] : k \in 0..n}

EncodeAll(fs) == Concat([i \in 1..Len(fs) |-> EncodeCommand(fs[i])])

\* Token lists of well-formed frames for the decoder: one to three bulks, an
\* empty bulk, and a bulk whose payload holds a line terminator.
TokFrames == {
    <<<<"a">>>>,
    <<<<"a", "b">>, <<"c">>>>,
    <<<<>>, <<"a">>>>,
    <<<<CR, LF>>>>,
    <<<<"a">>, <<"b">>, <<"c">>>> }

TokStreams == SeqsUpTo(TokFrames, MaxFrames)

\* Commands for the dispatcher: the authentication command in mixed case, a
\* write command with its declared token count and with one token less, and
\* a name no table holds.
CmdFrames == {
    <<<<"A", "u", "T", "h">>, <<"p">>>>,
    <<SetName, <<"k">>, <<"v">>>>,
    <<SetName, <<"k">>>>,
    <<<<"x">>>> }

CmdStreams == SeqsUpTo(CmdFrames, MaxCmds)

\* The offset at which frame j of a stream ends.
FrameEnd(fs, j) == Len(EncodeAll(SubSeq(fs, 1, j)))

\* The offsets of a stream of frames at which a delivery of the connection
\* specification may end: the end of each frame and, inside the first frame,
\* after the header of its first bulk.
FrameCuts(fs) ==
    {FrameEnd(fs, j) : j \in 1..Len(fs)}
    \cup
    (IF fs = <<>> THEN {}
     ELSE {Len(<<"*">> \o Dec(Len(fs[1])) \o CRLF
               \o <<"$">> \o Dec(Len(fs[1][1])) \o CRLF)})

\* The bytes that have reached the buffer and those that have not.
sent == SubSeq(stream, 1, pos)
wire == SubSeq(stream, pos + 1, Len(stream))

\* The decoder is inside a frame: bytes of it are buffered or decoded.
MidFrame == input # <<>> \/ req.state_ # "ArrayLen"

\* The process after a Tokenize call that went as run: killed when the call
\* threw.
Faulted(run) ==
    IF run.fault THEN [CallInit EXCEPT !.op = "Tokenize", !.outcome = "fault"]
    ELSE call

\* The lengths the next delivery may have.
Deliveries == {k \in 1..(Len(stream) - pos) : pos + k \in cuts}

----------------------------------------------------------------------------
(* The decoder specification: Tokenize called as bytes arrive.             *)

InitTok ==
    /\ frames \in TokStreams
    /\ stream = EncodeAll(frames)
    /\ cuts = 1..Len(stream)
    /\ pos = 0
    /\ input = <<>>
    /\ req = ReqInit
    /\ inbound = 0
    /\ conn = ConnInit("", FALSE)
    /\ resumed = FALSE
    /\ emitted = <<>>
    /\ executed = 0
    /\ last = LastInit
    /\ Accepted

\* The transport appends the next k bytes to the buffer and Tokenize runs.
TokenizeCall ==
    /\ call.outcome = "returned"
    /\ \E k \in Deliveries :
        LET buf == input \o SubSeq(stream, pos + 1, pos + k)
            run0 == Tokenize(req, buf, inbound, emitted, 0)
        IN \E junk \in JunkFor(run0) :
             LET run == IF junk = 0 THEN run0
                        ELSE Tokenize(req, buf, inbound, emitted, junk)
             IN /\ pos' = pos + k
                /\ input' = run.input
                /\ req' = run.req
                /\ inbound' = run.inbound
                /\ emitted' = run.emitted
                /\ resumed' = (resumed \/ MidFrame)
                /\ call' = Faulted(run)
                /\ UNCHANGED <<frames, stream, cuts, conn, executed, last,
                               owner, bev, event>>

NextTok == TokenizeCall

SpecTok == InitTok /\ [][NextTok]_vars

----------------------------------------------------------------------------
(* The raw decoder specification: Tokenize called as the bytes of any      *)
(* sequence of lines arrive.                                               *)

\* Array header lines that declare no element: a count of zero, no count, a
\* negative count, and the empty line.
ZeroHeaders == {
    <<"*", "0">> \o CRLF,
    <<"*">> \o CRLF,
    <<"*", "-", "1">> \o CRLF,
    CRLF }

\* The lines of a one-token frame.
FrameLines == {
    <<"*", "1">> \o CRLF,
    <<"$", "1">> \o CRLF,
    <<"a">> \o CRLF }

RawPieces == ZeroHeaders \cup FrameLines

InitRaw ==
    /\ frames \in SeqsUpTo(RawPieces, MaxPieces)
    /\ stream = Concat(frames)
    /\ cuts = 1..Len(stream)
    /\ pos = 0
    /\ input = <<>>
    /\ req = ReqInit
    /\ inbound = 0
    /\ conn = ConnInit("", FALSE)
    /\ resumed = FALSE
    /\ emitted = <<>>
    /\ executed = 0
    /\ last = LastInit
    /\ Accepted

SpecRaw == InitRaw /\ [][NextTok]_vars

----------------------------------------------------------------------------
(* The connection specification: read events on one connection.            *)

Init ==
    /\ frames \in CmdStreams
    /\ stream = EncodeAll(frames)
    /\ cuts = FrameCuts(frames)
    /\ pos = 0
    /\ input = <<>>
    /\ req = ReqInit
    /\ inbound = 0
    /\ \E ns \in {"", "ns"} : conn = ConnInit(ns, FALSE)
    /\ resumed = FALSE
    /\ emitted = <<>>
    /\ executed = 0
    /\ last = LastInit
    /\ Accepted

\* Connection::OnRead: the next k bytes have arrived; Tokenize, then
\* ExecuteCommands.
OnRead ==
    /\ FD \in owner
    /\ EV_READ \in bev.enabled
    /\ call.outcome = "returned"
    /\ \E k \in Deliveries :
        LET buf == input \o SubSeq(stream, pos + 1, pos + k)
            run0 == Tokenize(req, buf, inbound, emitted, 0)
        IN \E junk \in JunkFor(run0) :
             LET run == IF junk = 0 THEN run0
                        ELSE Tokenize(req, buf, inbound, emitted, junk)
             IN \E res \in (IF run.fault
                           THEN {[req |-> run.req, conn |-> conn,
                                  executed |-> executed, last |-> last]}
                           ELSE ExecuteCommands(run.req, conn, executed)) :
                  /\ pos' = pos + k
                  /\ input' = run.input
                  /\ inbound' = run.inbound
                  /\ emitted' = run.emitted
                  /\ resumed' = (resumed \/ MidFrame)
                  /\ req' = res.req
                  /\ conn' = res.conn
                  /\ executed' = res.executed
                  /\ last' = res.last
                  /\ event' = [cb |-> "OnRead", events |-> {}]
                  /\ call' = Faulted(run)
                  /\ UNCHANGED <<frames, stream, cuts, owner, bev>>

Next == OnRead

Spec == Init /\ [][Next]_vars

----------------------------------------------------------------------------
(* The connection specification on an authenticated session of either kind, *)
(* with a read and a write command.                                        *)

ReplFrames == {
    <<GetName, <<"k">>>>,
    <<SetName, <<"k">>, <<"v">>>> }

InitRepl ==
    /\ frames \in SeqsUpTo(ReplFrames, MaxCmds)
    /\ stream = EncodeAll(frames)
    /\ cuts = FrameCuts(frames)
    /\ pos = 0
    /\ input = <<>>
    /\ req = ReqInit
    /\ inbound = 0
    /\ \E is_repl \in BOOLEAN : conn = ConnInit("ns", is_repl)
    /\ resumed = FALSE
    /\ emitted = <<>>
    /\ executed = 0
    /\ last = LastInit
    /\ Accepted

SpecRepl == InitRepl /\ [][Next]_vars

----------------------------------------------------------------------------
(* The connection specification on an authenticated session, with one      *)
(* command of each token count around its declared arity.                  *)

ArityFrames == {
    <<SetName, <<"k">>>>,
    <<SetName, <<"k">>, <<"v">>>>,
    <<SetName, <<"k">>, <<"v">>, <<"w">>>>,
    <<DelName>>,
    <<DelName, <<"k">>>>,
    <<DelName, <<"k">>, <<"l">>>>,
    <<DelName, <<"k">>, <<"l">>, <<"m">>>> }

InitArity ==
    /\ \E f \in ArityFrames : frames = <<f>>
    /\ stream = EncodeAll(frames)
    /\ cuts = FrameCuts(frames)
    /\ pos = 0
    /\ input = <<>>
    /\ req = ReqInit
    /\ inbound = 0
    /\ conn = ConnInit("ns", FALSE)
    /\ resumed = FALSE
    /\ emitted = <<>>
    /\ executed = 0
    /\ last = LastInit
    /\ Accepted

SpecArity == InitArity /\ [][Next]_vars

----------------------------------------------------------------------------
(* The session specification: the read, write and event callbacks of one   *)
(* authenticated connection until the Worker removes it.                   *)

LifeFrames == {
    <<SetName, <<"k">>, <<"v">>>>,
    <<<<"x">>>> }

InitLife ==
    /\ frames \in SeqsUpTo(LifeFrames, MaxCmds)
    /\ stream = EncodeAll(frames)
    /\ cuts = FrameCuts(frames)
    /\ pos = 0
    /\ input = <<>>
    /\ req = ReqInit
    /\ inbound = 0
    /\ conn = ConnInit("ns", FALSE)
    /\ resumed = FALSE
    /\ emitted = <<>>
    /\ executed = 0
    /\ last = LastInit
    /\ Accepted

\* Connection::OnWrite: the output buffer has been flushed.
OnWrite ==
    /\ FD \in owner
    /\ owner' = OnWriteCallback(conn, owner)
    /\ event' = [cb |-> "OnWrite", events |-> {}]
    /\ UNCHANGED <<frames, stream, cuts, pos, input, req, inbound, conn, resumed,
                   emitted, executed, last, call, bev>>

\* Connection::OnEvent: the transport reports the bits events.
OnEvent ==
    /\ FD \in owner
    /\ \E events \in (SUBSET BevEvents) \ {{}} :
         LET res == OnEventCallback(owner, TimedOut(bev, events), events)
         IN /\ owner' = res.conns
            /\ bev' = res.bev
            /\ event' = [cb |-> "OnEvent", events |-> events]
    /\ UNCHANGED <<frames, stream, cuts, pos, input, req, inbound, conn, resumed,
                   emitted, executed, last, call>>

NextLife == OnRead \/ OnWrite \/ OnEvent

SpecLife == InitLife /\ [][NextLife]_vars

----------------------------------------------------------------------------
(* The subscription specifications: calls of the subscription operations   *)
(* on one connection.                                                      *)

InitSub ==
    /\ frames = <<>>
    /\ stream = <<>>
    /\ cuts = {}
    /\ pos = 0
    /\ input = <<>>
    /\ req = ReqInit
    /\ inbound = 0
    /\ conn = ConnInit("ns", FALSE)
    /\ resumed = FALSE
    /\ emitted = <<>>
    /\ executed = 0
    /\ last = LastInit
    /\ Accepted

\* A subscription call that went as res (the process goes on to the next
\* call only from a call that returned).
Called(op, channel, res) ==
    /\ call.outcome = "returned"
    /\ conn' = res.conn
    /\ call' = [op |-> op, channel |-> channel,
                before |-> conn.subscribe_channels_,
                notes |-> res.notes, outcome |-> res.outcome]
    /\ UNCHANGED <<frames, stream, cuts, pos, input, req, inbound, resumed,
                   emitted, executed, last, owner, bev, event>>

SubscribeChannelCall ==
    \E channel \in Channels :
        Called("SubscribeChannel", channel, SubscribeChannel(conn, channel))

UnSubscribeChannelCall ==
    \E channel \in Channels :
        \E res \in UnSubscribeChannel(conn, channel) :
            Called("UnSubscribeChannel", channel, res)

UnSubscribeAllCall == Called("UnSubscribeAll", 0, UnSubscribeAll(conn))

\* Subscribing and revoking everything.
NextSubscribe == SubscribeChannelCall \/ UnSubscribeAllCall

SpecSubscribe == InitSub /\ [][NextSubscribe]_vars

\* All three operations.
NextPubSub == SubscribeChannelCall \/ UnSubscribeChannelCall \/ UnSubscribeAllCall

SpecPubSub == InitSub /\ [][NextPubSub]_vars

----------------------------------------------------------------------------
(* Properties.                                                             *)

\* The name of the j-th command of the last batch, and its table entry.
NameOf(j) == Head(last.batch[j])
EntryOf(j) == LookupCommand(NameOf(j), conn.is_repl_).cmd

\* The number of frames of the stream whose last byte has been delivered.
FramesDelivered == Cardinality({j \in 1..Len(frames) : FrameEnd(frames, j) <= pos})

\* C1 (SpecTok): however the bytes delivered so far were split over Tokenize
\* calls, the commands pushed are those a single Tokenize call on all of
\* them pushes; in particular so once the whole stream is delivered.
C1_ChunkIndependence ==
    emitted = Tokenize(ReqInit, sent, 0, <<>>, 0).emitted

\* A two-frame stream delivered whole, one call having resumed a frame.
C1_Witness ==
    /\ resumed
    /\ pos = Len(stream)
    /\ Len(frames) >= 2
    /\ Len(emitted) = Len(frames)

\* C2 (Spec): after every ExecuteCommands call the pending batch is empty.
C2_BatchEmptyAfterExecute == req.commands_ = <<>>

\* C3 (Spec): an ExecuteCommands call with a non-empty batch while the
\* server is loading emits exactly the one reply "replication in progress",
\* processes no command, executes none and leaves the connection as it was.
C3_LoadingGate ==
    [][(last'.ran /\ last'.loading /\ pos' # pos) =>
          /\ last'.replies = <<Error("replication in progress")>>
          /\ last'.trace = <<>>
          /\ executed' = executed
          /\ conn' = conn]_vars

\* A call under loading with two or more commands queued.
C3_Witness == last.ran /\ last.loading /\ Len(last.batch) >= 2

\* C4 (Spec): on a session with an empty namespace a command whose
\* lower-cased name is not "auth" gets the NOAUTH reply and is not looked
\* up, parsed or executed; a command named "auth" in any case is not
\* rejected by this check.
C4_AuthGate ==
    \A j \in 1..Len(last.trace) :
        LET e == last.trace[j]
        IN /\ (e.ns = "" /\ ToLower(NameOf(e.idx)) # AuthName) =>
                /\ e.verdict = "noauth"
                /\ e.replies = <<Error("NOAUTH Authentication required.")>>
                /\ StepsOf(e.verdict) \cap {"LookupCommand", "Parse", "Execute"} = {}
           /\ (ToLower(NameOf(e.idx)) = AuthName) => e.verdict # "noauth"

\* One batch on an unauthenticated session in which a command is rejected
\* for authentication and "AuTh" is let through.
C4_Witness ==
    /\ \E j \in 1..Len(last.trace) :
           last.trace[j].ns = "" /\ last.trace[j].verdict = "noauth"
    /\ \E j \in 1..Len(last.trace) :
           /\ last.trace[j].ns = ""
           /\ NameOf(last.trace[j].idx) # AuthName
           /\ ToLower(NameOf(last.trace[j].idx)) = AuthName
           /\ last.trace[j].verdict = "run"

\* The read-only rule for the commands of the last batch that reached line
\* 199, under the condition role: a write command is rejected with READONLY
\* and not executed, any other command runs.
ReadOnlyRule(role) ==
    \A j \in 1..Len(last.trace) :
        LET e == last.trace[j]
        IN ("readonly" \in StepsOf(e.verdict) /\ last.gate.slave_readonly /\ role) =>
              IF EntryOf(e.idx).is_write
              THEN /\ e.verdict = "readonly"
                   /\ e.replies =
                        <<Error("READONLY You can't write against a read only slave.")>>
              ELSE e.verdict = "run"

ClosedStopsBatch ==
    /\ \A j \in 1..(Len(last.trace) - 1) : ~last.trace[j].closed
    /\ (last.ran /\ ~last.loading /\ kCloseAfterReply \in last.flags) =>
          (last.trace = <<>> /\ last.replies = <<>>)
    /\ (last.ran /\ ~last.loading) => req.commands_ = <<>>

\* C6 (Spec): once kCloseAfterReply is set it stays set and no command of
\* the session is executed any more, in the batch at hand or in a later one.
C6_NoExecutionAfterClose ==
    /\ []ClosedStopsBatch
    /\ [][IsFlagEnabled(conn, kCloseAfterReply) =>
             (IsFlagEnabled(conn', kCloseAfterReply) /\ executed' = executed)]_vars

\* A batch the loop left before its end because a command set the flag.
C6_Witness ==
    /\ IsFlagEnabled(conn, kCloseAfterReply)
    /\ last.ran /\ ~last.loading
    /\ last.trace # <<>>
    /\ Len(last.trace) < Len(last.batch)

\* C7 (Spec): the batch holds the commands in the order the decoder pushed
\* them, the loop handles them in that order, each once, and the replies of
\* the call are the replies of the commands in that order (no payload is
\* emitted before the payload of an earlier command).
C7_FIFO ==
    (last.ran /\ ~last.loading) =>
        /\ last.batch = SubSeq(emitted, Len(emitted) - Len(last.batch) + 1,
                               Len(emitted))
        /\ Len(last.trace) <= Len(last.batch)
        /\ \A j \in 1..Len(last.trace) : last.trace[j].idx = j
        /\ last.replies =
             Concat([j \in 1..Len(last.trace) |-> last.trace[j].replies])
        /\ \A j, k \in 1..Len(last.replies) :
             (j < k /\ last.replies[j].kind = "payload"
                    /\ last.replies[k].kind = "payload") =>
                last.replies[j].of <= last.replies[k].of

\* Two different commands run in one batch, each with its own reply.
C7_Witness ==
    /\ last.ran /\ ~last.loading
    /\ Len(last.trace) >= 2
    /\ last.batch[1] # last.batch[2]
    /\ last.replies = <<Payload(1), Payload(2)>>

\* The error reply of each check.
ErrorOf(verdict) ==
    CASE verdict = "noauth" -> {Error("NOAUTH Authentication required.")}
      [] verdict = "unknown" -> {Error("ERR unknown command")}
      [] verdict = "arity" -> {Error("ERR wrong number of arguments")}
      [] verdict = "parse" -> {Error(ParseMsg)}
      [] verdict = "readonly" ->
             {Error("READONLY You can't write against a read only slave.")}
      [] verdict = "run" -> {Error("ERR " \o ExecMsg)}

\* C8 (Spec): in a call with the server not loading that ends with
\* kCloseAfterReply not set, every command of the batch is processed, and a
\* command that a check rejected or whose execution failed got exactly one
\* reply, the error of that check.
C8_FailuresDoNotAbort ==
    (last.ran /\ ~last.loading /\ ~IsFlagEnabled(conn, kCloseAfterReply)) =>
        /\ Len(last.trace) = Len(last.batch)
        /\ \A j \in 1..Len(last.trace) :
             LET e == last.trace[j]
             IN (e.verdict # "run" \/ ~e.ok) =>
                   (Len(e.replies) = 1 /\ e.replies[1] \in ErrorOf(e.verdict))

\* A batch whose first command failed in execution after writing its reply
\* string, and whose second command ran.
C8_Witness ==
    /\ last.ran /\ ~last.loading /\ ~IsFlagEnabled(conn, kCloseAfterReply)
    /\ Len(last.trace) >= 2
    /\ last.trace[1].verdict = "run" /\ ~last.trace[1].ok /\ last.trace[1].writes
    /\ last.trace[2].verdict = "run" /\ last.trace[2].ok

\* C9 (SpecArity): a command that reached the arity check passes it exactly
\* when its token count equals a positive declared arity, or is at least
\* the absolute value of a negative one; a command that fails it gets
\* "ERR wrong number of arguments" and is neither parsed nor executed.
C9_Arity ==
    \A j \in 1..Len(last.trace) :
        LET e == last.trace[j]
            a == EntryOf(e.idx).arity
            t == Len(last.batch[e.idx])
            passed == "Parse" \in StepsOf(e.verdict)
        IN "arity" \in StepsOf(e.verdict) =>
              /\ a > 0 => (passed <=> t = a)
              /\ a < 0 => (passed <=> t >= 0 - a)
              /\ ~passed =>
                    /\ e.verdict = "arity"
                    /\ e.replies = <<Error("ERR wrong number of arguments")>>
                    /\ StepsOf(e.verdict) \cap {"Parse", "Execute"} = {}

\* A command with one token more than its positive arity, rejected.
C9_Witness ==
    \E j \in 1..Len(last.trace) :
        /\ EntryOf(last.trace[j].idx).arity > 0
        /\ Len(last.batch[last.trace[j].idx]) > EntryOf(last.trace[j].idx).arity
        /\ last.trace[j].verdict = "arity"

\* C10 (SpecTok): the commands pushed so far are exactly the frames whose
\* last byte has been delivered, with the tokens the frames declare: none
\* while a frame is incomplete, one, neither lost nor repeated, once the
\* rest of it has come.
C10_ResumeNoDuplication == emitted = SubSeq(frames, 1, FramesDelivered)

\* A single frame delivered in pieces and decoded once.
C10_Witness ==
    /\ Len(frames) = 1
    /\ resumed
    /\ pos = Len(stream)
    /\ emitted = frames

\* The entries of a sequence are pairwise different.
NoDuplicates(chans) ==
    \A i, j \in 1..Len(chans) : chans[i] = chans[j] => i = j

\* C11 (SpecSubscribe): each channel occurs at most once in
\* subscribe_channels_; a SubscribeChannel call for a channel already in the
\* list leaves the list as it was and makes no registry call, and a call for
\* a new channel appends it and makes one.
C11_SubscribeIdempotent ==
    /\ NoDuplicates(conn.subscribe_channels_)
    /\ call.op = "SubscribeChannel" =>
          IF \E i \in 1..Len(call.before) : call.before[i] = call.channel
          THEN /\ conn.subscribe_channels_ = call.before
               /\ call.notes = <<>>
          ELSE /\ conn.subscribe_channels_ = Append(call.before, call.channel)
               /\ call.notes = <<SvrSubscribe(call.channel)>>

\* A second SubscribeChannel for a channel that is not the first of the list.
C11_Witness ==
    /\ call.op = "SubscribeChannel"
    /\ Len(call.before) >= 2
    /\ \E i \in 2..Len(call.before) : call.before[i] = call.channel

\* C12 as claimed (SpecPubSub): UnSubscribeChannel for a subscribed channel
\* returns, having removed that channel and no other and having told the
\* registry once, of that channel.
C12_UnSubscribeExact ==
    (call.op = "UnSubscribeChannel"
       /\ \E i \in 1..Len(call.before) : call.before[i] = call.channel) =>
        /\ call.outcome = "returned"
        /\ conn.subscribe_channels_ =
             SelectSeq(call.before, LAMBDA ch : ch # call.channel)
        /\ call.notes = <<SvrUnSubscribe(call.channel)>>

\* C13 (SpecLife): an event callback without the error and end-of-stream
\* bits leaves the connection with the Worker, and one with the timeout bit
\* leaves reading and writing enabled; the connection is removed only by an
\* event callback with the error or the end-of-stream bit or by a write
\* callback with kCloseAfterReply set, and never by a read callback.
C13_TeardownCauses ==
    [][/\ (event'.cb = "OnEvent"
            /\ event'.events \cap {BEV_EVENT_EOF, BEV_EVENT_ERROR} = {}) =>
              /\ owner' = owner
              /\ conn' = conn
              /\ BEV_EVENT_TIMEOUT \in event'.events =>
                    bev'.enabled = {EV_READ, EV_WRITE}
       /\ owner' # owner =>
              /\ owner' = {}
              /\ \/ /\ event'.cb = "OnEvent"
                    /\ event'.events \cap {BEV_EVENT_EOF, BEV_EVENT_ERROR} # {}
                 \/ /\ event'.cb = "OnWrite"
                    /\ IsFlagEnabled(conn, kCloseAfterReply)
       /\ event'.cb = "OnRead" => owner' = owner]_vars

\* A read timeout reported to a connection that has kCloseAfterReply set,
\* after which the Worker still holds the connection.
C13_Witness ==
    /\ event.cb = "OnEvent"
    /\ event.events = {BEV_EVENT_TIMEOUT, BEV_EVENT_READING}
    /\ IsFlagEnabled(conn, kCloseAfterReply)
    /\ FD \in owner

\* C14 as claimed (SpecRaw): once the decoder has read a first line that is
\* an array header declaring no element, the first command pushed is the
\* command of no tokens.
C14_ZeroCountCompletes ==
    (frames # <<>> /\ frames[1] \in ZeroHeaders /\ pos >= Len(frames[1])) =>
        (emitted # <<>> /\ emitted[1] = <<>>)

\* C16 as claimed (SpecTok): the inbound byte counter equals the number of
\* bytes the decoder has taken out of the buffer.
C16_InboundCountsConsumed == inbound = pos - Len(input)

\* The element count the header of frame j declares.
Declared(j) == Len(frames[j])

\* C19 (SpecTok): between calls, while a command is in progress, the tokens
\* assembled plus the remaining element count make the count its array
\* header declared.
C19_DecoderAccounting ==
    req.state_ # "ArrayLen" =>
        Len(req.tokens_) + req.multi_bulk_len_ = Declared(Len(emitted) + 1)

\* The decoder suspended inside a three-token frame with two tokens
\* assembled.
C19_Witness ==
    /\ req.state_ # "ArrayLen"
    /\ Declared(Len(emitted) + 1) = 3
    /\ Len(req.tokens_) = 2

\* C20 (SpecRaw): every command the decoder has pushed, and every command
\* of the pending batch, has at least one token.
C20_CommandsHaveAName ==
    /\ \A j \in 1..Len(emitted) : Len(emitted[j]) >= 1
    /\ \A j \in 1..Len(req.commands_) : Len(req.commands_[j]) >= 1

\* A command pushed from a stream that starts with an array header declaring
\* no element.
C20_Witness ==
    /\ frames # <<>> /\ frames[1] \in ZeroHeaders
    /\ emitted # <<>>

\* C15 as claimed (Spec): a command that ran, succeeded and wrote nothing
\* to the reply string gets no reply.
C15_SilentCommandSilent ==
    \A j \in 1..Len(last.trace) :
        LET e == last.trace[j]
        IN (e.verdict = "run" /\ e.ok /\ ~e.writes) => e.replies = <<>>

\* The verdicts the checks of lines 176-202, taken in that order, allow for
\* event e of the last call: that of the first check the command fails, or,
\* for a command that passes authentication, lookup and arity, what Parse
\* and the read-only test leave.
VerdictsAllowed(e) ==
    LET toks == last.batch[e.idx]
        found == LookupCommand(Head(toks), conn.is_repl_)
    IN IF e.ns = "" /\ ToLower(Head(toks)) # AuthName THEN {"noauth"}
       ELSE IF ~found.ok THEN {"unknown"}
       ELSE IF \/ found.cmd.arity > 0 /\ Len(toks) # found.cmd.arity
               \/ found.cmd.arity < 0 /\ Len(toks) < 0 - found.cmd.arity
       THEN {"arity"}
       ELSE IF last.gate.slave_readonly /\ last.gate.slave /\ found.cmd.is_write
       THEN {"parse", "readonly"}
       ELSE {"parse", "run"}

\* C17 (Spec): each command handled gets the verdict of the first of the
\* checks authentication, lookup, arity, parsing, read-only that it fails;
\* a rejected command gets that check's error as its only reply and is not
\* executed.
C17_ValidationOrder ==
    \A j \in 1..Len(last.trace) :
        LET e == last.trace[j]
        IN /\ e.verdict \in VerdictsAllowed(e)
           /\ e.verdict # "run" =>
                 /\ Len(e.replies) = 1
                 /\ e.replies[1] \in ErrorOf(e.verdict)
                 /\ "Execute" \notin StepsOf(e.verdict)
                 /\ ~e.ok /\ ~e.writes /\ ~e.closed

\* On an unauthenticated session a command of a name no table holds and a
\* command with a token missing, each failing authentication and a later
\* check.
C17_Witness ==
    /\ \E j \in 1..Len(last.trace) :
          /\ last.trace[j].ns = ""
          /\ ~LookupCommand(NameOf(last.trace[j].idx), conn.is_repl_).ok
          /\ last.trace[j].verdict = "noauth"
    /\ \E j \in 1..Len(last.trace) :
          /\ last.trace[j].ns = ""
          /\ NameOf(last.trace[j].idx) = SetName
          /\ Len(last.batch[last.trace[j].idx]) = 2
          /\ last.trace[j].verdict = "noauth"

\* The events of the last call whose command reached execution.
RunEvents == SelectSeq(last.trace, LAMBDA e : e.verdict = "run")

\* The name under which the command of event e is registered.
RunName(e) == EntryOf(e.idx).name

\* Within one call: IncrCalls, SlowlogPushEntryIfNeeded and IncrLatency
\* were each called once for every command that reached execution, in
\* order, and for no other; last_cmd_ is the name of the last such command.
TelemetryMatchesRuns ==
    /\ last.stats.calls = [j \in 1..Len(RunEvents) |-> RunName(RunEvents[j])]
    /\ last.stats.latency = last.stats.calls
    /\ last.stats.slowlog = [j \in 1..Len(RunEvents) |-> RunEvents[j].idx]
    /\ RunEvents # <<>> => conn.last_cmd_ = RunName(RunEvents[Len(RunEvents)])

\* C18 (Spec): the call counter, the slow log and the latency record get
\* one entry for every command whose execution is started and none for a
\* command that the loading state, kCloseAfterReply or a check kept from
\* execution; a read event starts as many executions as it has such
\* commands, and last_cmd_ changes only in a call that executes a command.
C18_TelemetryMatchesExecutions ==
    /\ []TelemetryMatchesRuns
    /\ [][pos' # pos =>
             /\ executed' - executed =
                  Len(SelectSeq(last'.trace, LAMBDA e : e.verdict = "run"))
             /\ conn'.last_cmd_ # conn.last_cmd_ =>
                  \E j \in 1..Len(last'.trace) : last'.trace[j].verdict = "run"]_vars

\* A call in which one command was rejected and another failed in
\* execution.
C18_Witness ==
    /\ \E j \in 1..Len(last.trace) : last.trace[j].verdict \notin {"run", ""}
    /\ \E j \in 1..Len(last.trace) :
          last.trace[j].verdict = "run" /\ ~last.trace[j].ok
    /\ Len(last.stats.calls) = 1

====
